---- MODULE Spec2Model ----
(***************************************************************************)
(* A model of package logger (AquiGorka/go-logger): the Level enumeration, *)
(* ParseLevel, New with its options, the four logging operations, Scope    *)
(* and the no-op logger, over a small filesystem and two console sinks.    *)
(***************************************************************************)
EXTENDS Integers, Sequences, FiniteSets, TLC

\* ------------------------------------------------------------------ bounds
MaxLoggers == 3      \* logger values alive at once (New, Scope, NewNoop)
MaxOut == 1          \* lines held by one destination
MaxEdits == 1        \* characters of a level name replaced, added or dropped
MaxCalls == 1        \* logging calls one thread makes

\* ------------------------------------------------- constants of the source
LevelDebug == 0
LevelInfo == 1
LevelEvent == 2
LevelDisabled == 3

\* zerolog's native levels, as the source refers to them
DebugLevel == 0
InfoLevel == 1
WarnLevel == 2
ErrorLevel == 3
Disabled == 7

eventLevel == 2

\* ------------------------------------------------------------- input sets
\* Level is an int: the four enumerated values and one outside them.
LevelInputs == LevelDebug .. (LevelDisabled + 1)
LogPath == <<"logs", "app.log">>
NoPath == <<>>
FilePaths == {LogPath}
Stdout == "stdout"
Buf == "buf"
Writers == {Stdout, Buf}
Names == {"db"}
Msgs == {"hello"}
NoOsErr == "nil"
OsErrs == {"EACCES"}
LogOps == {"Info", "Event", "Debug", "Error"}
Dests == {"console", "file"}
Threads == {"t1", "t2"}

VARIABLES
  input,     \* the configuration string handed to ParseLevel, as its characters
  parsed,    \* the Level ParseLevel returned for it
  edits,     \* how many characters of input were replaced, added or dropped
  args,      \* the Level and the options the program passes to New
  loggers,   \* the Logger values created so far, by identity (index)
  born,      \* per logger: the Level New was given, the label it was created with, its root
  out,       \* what each console sink has received
  files,     \* per path: whether the file exists, and its lines
  dirs,      \* the directories that exist
  last,      \* the last call made: operation, receiver, inputs, and what it returned
  pc,        \* per thread: where its logging call stands
  job,       \* per thread: the record it is writing and the logger it writes through
  off,       \* per thread: the buffer length it read in bytes.Buffer.Write
  calls,     \* per thread: the logging calls it has made
  emitted    \* the records that passed the level filter

logVars == <<args, loggers, born, out, files, dirs, last>>
parseVars == <<input, parsed, edits>>
concVars == <<pc, job, off, calls, emitted>>
vars == <<input, parsed, edits, args, loggers, born, out, files, dirs, last,
          pc, job, off, calls, emitted>>

\* ------------------------------------------------------------ level table
levelMap ==
  (LevelDebug :> DebugLevel) @@ (LevelInfo :> InfoLevel) @@
  (LevelEvent :> eventLevel) @@ (LevelDisabled :> Disabled)

\* a missing map entry read without the ok check: Go's zero value, DebugLevel
ZLevelZeroValue(level) == IF level \in DOMAIN levelMap THEN levelMap[level] ELSE 0

\* New, lines 122-125: an unmapped Level becomes zerolog.Disabled
ZLevel(level) == IF level \in DOMAIN levelMap THEN levelMap[level] ELSE Disabled

\* -------------------------------------------------------------- ParseLevel
\* the letters of the three level names, and characters outside them:
\* U+0130 (capital I with dot above), a letter of no name, a digit
LowerLetters == <<"d", "e", "b", "u", "g", "i", "n", "f", "o", "v", "t">>
UpperLetters == <<"D", "E", "B", "U", "G", "I", "N", "F", "O", "V", "T">>
DottedI == "U+0130"
Others == {DottedI, "x", "1"}
Letter(seq, c) == \E k \in DOMAIN seq : seq[k] = c
Index(seq, c) == CHOOSE k \in DOMAIN seq : seq[k] = c

\* unicode.ToLower: an upper-case letter goes to its simple lower-case
\* mapping (U+0130 goes to 'i'), any other rune to itself
ToLowerRune(c) ==
  IF Letter(UpperLetters, c) THEN LowerLetters[Index(UpperLetters, c)]
  ELSE IF c = DottedI THEN "i"
  ELSE c
\* unicode.ToUpper on the letters of the level names
ToUpperRune(c) ==
  IF Letter(LowerLetters, c) THEN UpperLetters[Index(LowerLetters, c)] ELSE c

\* strings.ToLower
ToLower(s) == [k \in DOMAIN s |-> ToLowerRune(s[k])]

NameDebug == <<"d", "e", "b", "u", "g">>
NameInfo == <<"i", "n", "f", "o">>
NameEvent == <<"e", "v", "e", "n", "t">>

ParseLevel(s) ==
  LET l == ToLower(s)
  IN CASE l = NameDebug -> LevelDebug
       [] l = NameInfo -> LevelInfo
       [] l = NameEvent -> LevelEvent
       [] OTHER -> LevelDisabled

\* ---------------------------------------------------------------- options
WithFile(path) == [kind |-> "file", path |-> path, w |-> Stdout]
WithWriter(w) == [kind |-> "writer", path |-> NoPath, w |-> w]
Options == {WithFile(LogPath), WithWriter(Buf)}
OptLists ==
  {<<>>} \cup {<<a>> : a \in Options} \cup {s \in Options \X Options : s[1] # s[2]}

ApplyOption(opt, cfg) ==
  IF opt.kind = "file" THEN [cfg EXCEPT !.filePath = opt.path]
  ELSE [cfg EXCEPT !.writer = opt.w]

RECURSIVE ApplyFrom(_, _, _)
ApplyFrom(opts, i, cfg) ==
  IF i > Len(opts) THEN cfg ELSE ApplyFrom(opts, i + 1, ApplyOption(opts[i], cfg))

\* New, lines 101-106
ApplyOptions(opts) == ApplyFrom(opts, 1, [filePath |-> NoPath, writer |-> Stdout])

\* ------------------------------------------------------------- filesystem
Dir(path) == SubSeq(path, 1, Len(path) - 1)
MkdirAll(dir, ds) == ds \cup {SubSeq(dir, 1, k) : k \in 0 .. Len(dir)}

\* O_TRUNC in the place of O_APPEND: the content is dropped on open
OpenFileTrunc(f) == [exists |-> TRUE, data |-> <<>>]

\* os.OpenFile(path, O_APPEND|O_CREATE|O_WRONLY): creates a missing file
\* empty, keeps the content of an existing one
OpenFile(f) == IF f.exists THEN f ELSE [exists |-> TRUE, data |-> <<>>]
NoFile == [exists |-> FALSE, data |-> <<>>]

NoError == [msg |-> "", wraps |-> NoOsErr]
\* %v in the place of %w: the OS error is not wrapped
ErrorfUnwrapped(msg, oserr) == [msg |-> msg, wraps |-> NoOsErr]
Errorf(msg, oserr) == [msg |-> msg, wraps |-> oserr]

\* ------------------------------------------------------------ construction
NilLogger == [kind |-> "nil", zl |-> [console |-> Stdout, file |-> NoPath, level |-> Disabled],
              scope |-> ""]
ConsoleWriterOf(w) == w
MultiLevelWriter(console, file) == [console |-> console, file |-> file]

\* New: the value returned and the filesystem it leaves
New(level, opts, mkdirErr, openErr, fs) ==
  LET cfg == ApplyOptions(opts)
      console == ConsoleWriterOf(cfg.writer)
      root(file) == [kind |-> "logger",
                     zl |-> MultiLevelWriter(console, file) @@ [level |-> ZLevel(level)],
                     scope |-> "main"]
  IN IF cfg.filePath # NoPath
     THEN IF mkdirErr # NoOsErr
          THEN [logger |-> NilLogger, err |-> Errorf("logger: create log directory", mkdirErr),
                dirs |-> fs.dirs, files |-> fs.files]
          ELSE IF openErr # NoOsErr
          THEN [logger |-> NilLogger, err |-> Errorf("logger: open log file", openErr),
                dirs |-> MkdirAll(Dir(cfg.filePath), fs.dirs), files |-> fs.files]
          ELSE [logger |-> root(cfg.filePath), err |-> NoError,
                dirs |-> MkdirAll(Dir(cfg.filePath), fs.dirs), files |-> [fs.files EXCEPT ![cfg.filePath] = OpenFile(@)]]
     ELSE [logger |-> root(NoPath), err |-> NoError, dirs |-> fs.dirs, files |-> fs.files]

\* ------------------------------------------------------------ the backend
\* an off-by-one filter: an event at the logger's own level is dropped too
shouldAbove(zl, lvl) == lvl > zl.level

\* zerolog.Logger.should: an event below the logger's level is dropped
should(zl, lvl) == lvl >= zl.level

\* zerolog.Logger.WithLevel: the event constructor of the native level
WithLevel(level) ==
  CASE level = DebugLevel -> DebugLevel
    [] level = InfoLevel -> InfoLevel
    [] level = WarnLevel -> WarnLevel
    [] level = ErrorLevel -> ErrorLevel

\* zerolog.Level.String
LevelString(l) ==
  CASE l = DebugLevel -> "debug"
    [] l = InfoLevel -> "info"
    [] l = WarnLevel -> "warn"
    [] l = ErrorLevel -> "error"
    [] OTHER -> ""

\* init, lines 176-183
LevelFieldMarshalFunc(l) == IF l = eventLevel THEN "event" ELSE LevelString(l)

\* ------------------------------------------------------- the four operations
Info(l, msg) ==
  [lvl |-> InfoLevel, message |-> <<"[", l.scope, "] ", msg>>, error |-> ""]
Event(l, msg) ==
  [lvl |-> WithLevel(eventLevel), message |-> <<"-", msg, " (", l.scope, ")">>, error |-> ""]
Debug(l, key, value) ==
  [lvl |-> DebugLevel, message |-> <<" ", key, ": ", value, " (", l.scope, ")">>, error |-> ""]
Error(l, err, msg) ==
  [lvl |-> ErrorLevel, message |-> <<"[", l.scope, "] ", msg>>, error |-> err]

EventOf(l, op, msg) ==
  CASE op = "Info" -> Info(l, msg)
    [] op = "Event" -> Event(l, msg)
    [] op = "Debug" -> Debug(l, "key", msg)
    [] op = "Error" -> Error(l, "boom", msg)

\* the serialized record: the level field is written through LevelFieldMarshalFunc
Line(e) ==
  [lvl |-> e.lvl, level |-> LevelFieldMarshalFunc(e.lvl), message |-> e.message,
   error |-> e.error]

\* zerolog.ConsoleWriter.Write: the record re-rendered for the terminal
ConsoleLine(p) == [fmt |-> "console", rec |-> p]

\* io.MultiWriter's behaviour: the first failed write ends the fan-out
MultiWriteStop(zl, p, fail, st) ==
  IF "console" \in fail THEN st
  ELSE LET st1 == [st EXCEPT !.out[zl.console] = Append(@, [fmt |-> "console", rec |-> p])]
       IN IF zl.file = NoPath \/ "file" \in fail THEN st1
          ELSE [st1 EXCEPT !.files[zl.file].data = Append(@, p)]

\* zerolog's multiLevelWriter.WriteLevel: every writer is written, whatever
\* the others returned; a failed write leaves its destination as it was
MultiWrite(zl, p, fail, st) ==
  LET st1 == IF "console" \in fail THEN st
             ELSE [st EXCEPT !.out[zl.console] = Append(@, ConsoleLine(p))]
  IN IF zl.file = NoPath \/ "file" \in fail THEN st1
     ELSE [st1 EXCEPT !.files[zl.file].data = Append(@, p)]

\* Event.Msgf -> Event.write: a filtered event writes nothing
Emit(l, e, fail, st) ==
  IF should(l.zl, e.lvl) THEN MultiWrite(l.zl, Line(e), fail, st) ELSE st

\* a Scope that nests the receiver's label in the new one
ScopeNested(l, name) == [kind |-> "logger", zl |-> l.zl, scope |-> l.scope \o "." \o name]

\* logger.Scope
Scope(l, name) == [kind |-> "logger", zl |-> l.zl, scope |-> name]

\* ---------------------------------------------------------- no-op logger
NewNoop == [kind |-> "noop", zl |-> NilLogger.zl, scope |-> ""]
\* a Scope that allocates a fresh no-op logger
NoopScopeFresh(ls, id, name) ==
  [loggers |-> Append(ls, [kind |-> "noop", zl |-> NilLogger.zl, scope |-> ""]),
   res |-> Len(ls) + 1]
\* NoopLogger.Scope: the receiver itself
NoopScope(ls, id, name) == [loggers |-> ls, res |-> id]
\* NoopLogger.Info/Event/Debug/Error: empty bodies
NoopLog(op, st) == st

\* ------------------------------------------------------------- the machine
Max(S) == CHOOSE x \in S : \A y \in S : y <= x
\* the path of the last WithFile option in the list, if any
LastFile(opts) ==
  LET I == {i \in 1 .. Len(opts) : opts[i].kind = "file"}
  IN IF I = {} THEN NoPath ELSE opts[Max(I)].path

Fits(st) ==
  /\ \A w \in Writers : Len(st.out[w]) <= MaxOut
  /\ \A p \in FilePaths : Len(st.files[p].data) <= MaxOut

NoCall == [op |-> "none", lg |-> 0, fail |-> {}, res |-> 0, err |-> NoError,
           mkdirErr |-> NoOsErr, openErr |-> NoOsErr]

\* a call of New(level, opts...) in a program that holds the loggers ls:
\* what the program holds afterwards and the pair (Logger, error) returned
Constructed(level, opts, mkdirErr, openErr, ls, bn, fs) ==
  LET r == New(level, opts, mkdirErr, openErr, fs)
      id == Len(ls) + 1
      ok == r.logger # NilLogger
  IN [loggers |-> IF ok THEN Append(ls, r.logger) ELSE ls,
      born |-> IF ok THEN Append(bn, [level |-> level, label |-> "main", parent |-> 0])
               ELSE bn,
      dirs |-> r.dirs,
      files |-> r.files,
      last |-> [NoCall EXCEPT !.op = "New", !.res = IF ok THEN id ELSE 0, !.err = r.err,
                              !.mkdirErr = mkdirErr, !.openErr = openErr]]

FsErrs == {NoOsErr} \cup OsErrs

\* the program has made its first call of New, on a filesystem without the log directory
\* no configuration string is parsed
NoParse == input = <<>> /\ parsed = ParseLevel(<<>>) /\ edits = 0
NoJob == [id |-> <<>>, lg |-> 0]
\* no thread has made a call
NoThreads ==
  /\ pc = [t \in Threads |-> "idle"]
  /\ job = [t \in Threads |-> NoJob]
  /\ off = [t \in Threads |-> 0]
  /\ calls = [t \in Threads |-> 0]
  /\ emitted = {}

InitWith(levels, optLists) ==
  \E level \in levels, opts \in optLists, mkdirErr, openErr \in FsErrs :
    LET c == Constructed(level, opts, mkdirErr, openErr, <<>>, <<>>,
                         [dirs |-> {<<>>}, files |-> [p \in FilePaths |-> NoFile]])
    IN /\ args = [level |-> level, opts |-> opts]
       /\ loggers = c.loggers
       /\ born = c.born
       /\ dirs = c.dirs
       /\ files = c.files
       /\ last = c.last
       /\ out = [w \in Writers |-> <<>>]
       /\ NoParse
       /\ NoThreads

Init == InitWith(LevelInputs, OptLists)

NewCall(mkdirErr, openErr) ==
  /\ Len(loggers) < MaxLoggers
  /\ LET c == Constructed(args.level, args.opts, mkdirErr, openErr, loggers, born,
                          [dirs |-> dirs, files |-> files])
     IN /\ loggers' = c.loggers
        /\ born' = c.born
        /\ dirs' = c.dirs
        /\ files' = c.files
        /\ last' = c.last
  /\ UNCHANGED <<args, out, parseVars, concVars>>

ScopeCall(id, name) ==
  /\ Len(loggers) < MaxLoggers
  /\ loggers[id].kind = "logger"
  /\ loggers' = Append(loggers, Scope(loggers[id], name))
  /\ born' = Append(born, [born[id] EXCEPT !.label = name, !.parent = id])
  /\ last' = [NoCall EXCEPT !.op = "Scope", !.lg = id, !.res = Len(loggers) + 1]
  /\ UNCHANGED <<args, out, files, dirs, parseVars, concVars>>

LogCall(id, op, msg, fail) ==
  /\ loggers[id].kind = "logger"
  /\ LET st == Emit(loggers[id], EventOf(loggers[id], op, msg), fail,
                    [out |-> out, files |-> files])
     IN /\ Fits(st)
        /\ out' = st.out
        /\ files' = st.files
  /\ last' = [NoCall EXCEPT !.op = op, !.lg = id, !.fail = fail]
  /\ UNCHANGED <<args, loggers, born, dirs, parseVars, concVars>>

NewNoopCall ==
  /\ Len(loggers) < MaxLoggers
  /\ loggers' = Append(loggers, NewNoop)
  /\ born' = Append(born, [level |-> LevelDisabled, label |-> "", parent |-> 0])
  /\ last' = [NoCall EXCEPT !.op = "NewNoop", !.res = Len(loggers) + 1]
  /\ UNCHANGED <<args, out, files, dirs, parseVars, concVars>>

NoopLogCall(id, op) ==
  /\ loggers[id].kind = "noop"
  /\ LET st == NoopLog(op, [out |-> out, files |-> files])
     IN /\ out' = st.out
        /\ files' = st.files
  /\ last' = [NoCall EXCEPT !.op = op, !.lg = id]
  /\ UNCHANGED <<args, loggers, born, dirs, parseVars, concVars>>

NoopScopeCall(id, name) ==
  /\ loggers[id].kind = "noop"
  /\ LET r == NoopScope(loggers, id, name)
     IN /\ Len(r.loggers) <= MaxLoggers
        /\ loggers' = r.loggers
        /\ born' = IF Len(r.loggers) > Len(loggers)
                   THEN Append(born, [born[id] EXCEPT !.label = name, !.parent = id]) ELSE born
        /\ last' = [NoCall EXCEPT !.op = "Scope", !.lg = id, !.res = r.res]
  /\ UNCHANGED <<args, out, files, dirs, parseVars, concVars>>

Next ==
  \/ \E mkdirErr, openErr \in FsErrs : NewCall(mkdirErr, openErr)
  \/ \E id \in DOMAIN loggers, name \in Names : ScopeCall(id, name)
  \/ \E id \in DOMAIN loggers, op \in LogOps, msg \in Msgs : LogCall(id, op, msg, {})
  \/ NewNoopCall
  \/ \E id \in DOMAIN loggers, op \in LogOps : NoopLogCall(id, op)
  \/ \E id \in DOMAIN loggers, name \in Names : NoopScopeCall(id, name)

\* the program of Spec, with every write succeeding
Spec == Init /\ [][Next]_vars

\* A program that built its logger with a file path, on destinations whose
\* writes can fail: each call draws the set of destinations that refuse it.
InitFanout == InitWith(LevelInputs, {o \in OptLists : LastFile(o) # NoPath})

FanoutOps == {"Info", "Error"}

NextFanout ==
  \/ \E id \in DOMAIN loggers, name \in Names : ScopeCall(id, name)
  \/ \E id \in DOMAIN loggers, op \in FanoutOps, msg \in Msgs, fail \in SUBSET Dests :
       LogCall(id, op, msg, fail)

SpecFanout == InitFanout /\ [][NextFanout]_vars

\* ------------------------------------------- the configuration string parsed
\* A program that reads its level from a configuration string: a level name
\* or another word, re-cased freely and changed in up to MaxEdits characters.
Words == {<<>>, NameDebug, NameInfo, NameEvent, <<"i", "n", "f">>}

InitParse ==
  /\ input \in Words
  /\ parsed = ParseLevel(input)
  /\ edits = 0
  /\ args = [level |-> LevelDisabled, opts |-> <<>>]
  /\ loggers = <<>> /\ born = <<>>
  /\ out = [w \in Writers |-> <<>>]
  /\ files = [p \in FilePaths |-> NoFile]
  /\ dirs = {<<>>}
  /\ last = NoCall
  /\ NoThreads

Parse(s, n) ==
  /\ input' = s
  /\ parsed' = ParseLevel(s)
  /\ edits' = n
  /\ UNCHANGED <<logVars, concVars>>

Recase(i) ==
  /\ i \in DOMAIN input
  /\ \/ Letter(LowerLetters, input[i]) /\ Parse([input EXCEPT ![i] = ToUpperRune(@)], edits)
     \/ Letter(UpperLetters, input[i]) /\
          Parse([input EXCEPT ![i] = LowerLetters[Index(UpperLetters, @)]], edits)

Replace(i, c) ==
  /\ edits < MaxEdits
  /\ i \in DOMAIN input /\ input[i] # c
  /\ Parse([input EXCEPT ![i] = c], edits + 1)

Extend(c) ==
  /\ edits < MaxEdits
  /\ Parse(Append(input, c), edits + 1)

Drop ==
  /\ edits < MaxEdits
  /\ input # <<>>
  /\ Parse(SubSeq(input, 1, Len(input) - 1), edits + 1)

NextParse ==
  \/ \E i \in 1 .. 5 : Recase(i)
  \/ \E i \in 1 .. 5, c \in Others : Replace(i, c)
  \/ \E c \in Others \cup {"o", "O"} : Extend(c)
  \/ Drop

SpecParse == InitParse /\ [][NextParse]_vars

\* ------------------------------------------------------- concurrent callers
\* Threads log through the root and a scoped logger of one New call. The
\* backend builds a record privately and hands it to each destination in
\* one Write call. An *os.File (stdout, the log file) serializes its Write
\* calls; the writer given to WithWriter is a bytes.Buffer, whose Write reads
\* the length, then copies the bytes in, with no lock. A record is written as
\* two parts, so that a record torn by another write can be told.
Parts(id) == <<[id |-> id, part |-> 1], [id |-> id, part |-> 2]>>
Junk == [id |-> <<>>, part |-> 0]
IsFile(w) == w = Stdout

\* copy of one part to position i of the buffer's memory
SetAt(seq, i, x) ==
  IF i <= Len(seq) THEN [seq EXCEPT ![i] = x]
  ELSE seq \o [k \in 1 .. (i - Len(seq) - 1) |-> Junk] \o <<x>>

InitConc ==
  \E level \in LevelInputs, opts \in OptLists :
    LET c == Constructed(level, opts, NoOsErr, NoOsErr, <<>>, <<>>,
                         [dirs |-> {<<>>}, files |-> [p \in FilePaths |-> NoFile]])
    IN /\ args = [level |-> level, opts |-> opts]
       /\ loggers = Append(c.loggers, Scope(c.loggers[1], "db"))
       /\ born = Append(c.born, [c.born[1] EXCEPT !.label = "db", !.parent = 1])
       /\ dirs = c.dirs
       /\ files = c.files
       /\ last = c.last
       /\ out = [w \in Writers |-> <<>>]
       /\ NoParse
       /\ NoThreads

\* after the console write: on to the file, if there is one
AfterConsole(t) ==
  IF loggers[job[t].lg].zl.file # NoPath THEN "file" ELSE "idle"

\* logger.Info/Event/Debug/Error up to the level check
Call(t, id, op) ==
  /\ pc[t] = "idle" /\ calls[t] < MaxCalls
  /\ loggers[id].kind = "logger"
  /\ calls' = [calls EXCEPT ![t] = @ + 1]
  /\ IF should(loggers[id].zl, EventOf(loggers[id], op, "hello").lvl)
     THEN /\ job' = [job EXCEPT ![t] = [id |-> <<t, calls'[t]>>, lg |-> id]]
          /\ emitted' = emitted \cup {<<t, calls'[t]>>}
          /\ pc' = [pc EXCEPT ![t] = "console"]
     ELSE UNCHANGED <<job, emitted, pc>>
  /\ UNCHANGED <<off, logVars, parseVars>>

\* ConsoleWriter.Write on an *os.File: one serialized write
ConsoleWriteFile(t) ==
  /\ pc[t] = "console" /\ IsFile(loggers[job[t].lg].zl.console)
  /\ out' = [out EXCEPT ![loggers[job[t].lg].zl.console] = @ \o Parts(job[t].id)]
  /\ pc' = [pc EXCEPT ![t] = AfterConsole(t)]
  /\ UNCHANGED <<args, loggers, born, files, dirs, last, job, off, calls, emitted, parseVars>>

\* bytes.Buffer.Write, first step: read the length
BufLen(t) ==
  /\ pc[t] = "console" /\ ~IsFile(loggers[job[t].lg].zl.console)
  /\ off' = [off EXCEPT ![t] = Len(out[loggers[job[t].lg].zl.console])]
  /\ pc' = [pc EXCEPT ![t] = "copy1"]
  /\ UNCHANGED <<logVars, job, calls, emitted, parseVars>>

\* bytes.Buffer.Write, the copy, part by part
BufCopy(t, k) ==
  /\ pc[t] = (IF k = 1 THEN "copy1" ELSE "copy2")
  /\ out' = [out EXCEPT ![loggers[job[t].lg].zl.console] =
                SetAt(@, off[t] + k, Parts(job[t].id)[k])]
  /\ pc' = [pc EXCEPT ![t] = IF k = 1 THEN "copy2" ELSE AfterConsole(t)]
  /\ UNCHANGED <<args, loggers, born, files, dirs, last, job, off, calls, emitted, parseVars>>

\* os.File.Write on the log file opened with O_APPEND: one serialized append
FileWrite(t) ==
  /\ pc[t] = "file"
  /\ files' = [files EXCEPT ![loggers[job[t].lg].zl.file].data = @ \o Parts(job[t].id)]
  /\ pc' = [pc EXCEPT ![t] = "idle"]
  /\ UNCHANGED <<args, loggers, born, out, dirs, last, job, off, calls, emitted, parseVars>>

NextConc ==
  \/ \E t \in Threads, id \in DOMAIN loggers, op \in LogOps : Call(t, id, op)
  \/ \E t \in Threads : ConsoleWriteFile(t)
  \/ \E t \in Threads : BufLen(t)
  \/ \E t \in Threads, k \in {1, 2} : BufCopy(t, k)
  \/ \E t \in Threads : FileWrite(t)

SpecConc == InitConc /\ [][NextConc]_vars

\* ------------------------------------------------------------------ claims
Real(id) == id \in DOMAIN loggers /\ loggers[id].kind = "logger"
\* the severity order the documentation gives: Debug < Info < Event < Error
Rank(op) ==
  CASE op = "Debug" -> 0 [] op = "Info" -> 1 [] op = "Event" -> 2 [] op = "Error" -> 3
ThresholdRank(level) ==
  CASE level = LevelDebug -> 0 [] level = LevelInfo -> 1 [] level = LevelEvent -> 2
Enabling == {LevelDebug, LevelInfo, LevelEvent}
AllLines(st) ==
  UNION {{st.out[w][i].rec : i \in DOMAIN st.out[w]} : w \in Writers}
  \cup UNION {{st.files[p].data[i] : i \in DOMAIN st.files[p].data} : p \in FilePaths}
IsPrefix(a, b) == Len(a) <= Len(b) /\ SubSeq(b, 1, Len(a)) = a
Contains(seq, x) == \E k \in DOMAIN seq : seq[k] = x

\* C1: on a logger built by New with threshold Debug, Info or Event, or derived
\* from one by Scope, a call of Info, Event, Debug or Error produces output
\* exactly when its severity is at least the threshold, in the order
\* Debug < Info < Event < Error.
C1_FilterByThreshold ==
  [][(last'.op \in LogOps /\ Real(last'.lg) /\ born[last'.lg].level \in Enabling)
       => ((out' # out \/ files' # files)
             <=> Rank(last'.op) >= ThresholdRank(born[last'.lg].level))]_vars

\* a scoped logger at LevelInfo has had Debug called on it, after an Info line was written
C1_Witness ==
  /\ last.op = "Debug" /\ Real(last.lg)
  /\ born[last.lg].level = LevelInfo /\ born[last.lg].parent # 0
  /\ \E w \in Writers : Len(out[w]) = 1 /\ out[w][1].rec.level = "info"

\* C2: a logger built with LevelDisabled or with a Level outside the
\* enumeration, and every logger derived from it, never writes: every
\* destination stays as it was right after construction (empty).
C2_DisabledWritesNothing ==
  (\A id \in DOMAIN loggers : Real(id) => born[id].level \notin Enabling)
    => /\ \A w \in Writers : out[w] = <<>>
       /\ \A p \in FilePaths : files[p].data = <<>>

\* Error has been called on a scoped logger whose root was built with a Level
\* outside the enumeration and with a log file
C2_Witness ==
  /\ last.op = "Error" /\ Real(last.lg)
  /\ born[last.lg].level = LevelDisabled + 1 /\ born[last.lg].parent # 0
  /\ loggers[last.lg].zl.file = LogPath /\ files[LogPath].exists

\* s is w with each letter in lower or in upper case
CaseVariant(s, w) ==
  Len(s) = Len(w) /\ \A k \in DOMAIN w : s[k] \in {w[k], ToUpperRune(w[k])}

\* C3: ParseLevel returns LevelDebug, LevelInfo or LevelEvent for every
\* upper/lower-case variant of "debug", "info" or "event", and LevelDisabled
\* for every other string, the empty one included.
C3_ParseLevelClosed ==
  parsed = (IF CaseVariant(input, NameDebug) THEN LevelDebug
            ELSE IF CaseVariant(input, NameInfo) THEN LevelInfo
            ELSE IF CaseVariant(input, NameEvent) THEN LevelEvent
            ELSE LevelDisabled)

\* C4: Scope(n) returns a new logger labelled exactly n that shares the
\* receiver's writers and threshold, and leaves every existing logger as it
\* was; each logger renders the label it was created with, the root "main".
C4_ScopeReplacesLabel ==
  /\ [](\A id \in DOMAIN loggers : Real(id) =>
          /\ loggers[id].scope = born[id].label
          /\ born[id].parent = 0 => loggers[id].scope = "main")
  /\ [][(last'.op = "Scope" /\ Real(last'.lg)) =>
          /\ last'.res \notin DOMAIN loggers
          /\ last'.res \in DOMAIN loggers'
          /\ loggers'[last'.res].scope = born'[last'.res].label
          /\ loggers'[last'.res].zl = loggers[last'.lg].zl
          /\ \A id \in DOMAIN loggers : loggers'[id] = loggers[id]]_vars
  /\ [][(last'.op \in LogOps /\ Real(last'.lg)) =>
          \A w \in Writers : out'[w] # out[w] =>
            Contains(out'[w][Len(out'[w])].rec.message, born[last'.lg].label)]_vars

\* the root has logged after a child and a grandchild were derived from it
C4_Witness ==
  /\ last.op = "Info" /\ last.lg = 1 /\ Real(1)
  /\ Len(loggers) = 3 /\ born[2].parent = 1 /\ born[3].parent = 2
  /\ \E w \in Writers : Len(out[w]) = 1 /\ Contains(out[w][1].rec.message, "main")

\* C5: New returns exactly one of a Logger and an error: with a file path,
\* a failed directory creation or a failed open gives a nil Logger and an
\* error naming that step and wrapping the OS error; every other call gives
\* a Logger scoped "main" and a nil error.
C5_NewReturnsOne ==
  last.op = "New" =>
    LET wants == LastFile(args.opts) # NoPath
    IN /\ (last.res = 0) # (last.err = NoError)
       /\ (wants /\ last.mkdirErr # NoOsErr) =>
            /\ last.res = 0
            /\ last.err = [msg |-> "logger: create log directory", wraps |-> last.mkdirErr]
       /\ (wants /\ last.mkdirErr = NoOsErr /\ last.openErr # NoOsErr) =>
            /\ last.res = 0
            /\ last.err = [msg |-> "logger: open log file", wraps |-> last.openErr]
       /\ (~wants \/ (last.mkdirErr = NoOsErr /\ last.openErr = NoOsErr)) =>
            /\ Real(last.res) /\ last.res = Len(loggers)
            /\ loggers[last.res].scope = "main"
            /\ last.err = NoError

\* New has failed at the open, after the directory was created
C5_Witness ==
  /\ last.op = "New" /\ last.res = 0 /\ last.err.msg = "logger: open log file"
  /\ Dir(LogPath) \in dirs

\* C6 (as amended): with a file path, a record that passes the filter is
\* handed to the console writer and to the file alike: each destination whose
\* write succeeds gains exactly that record, with the same content on both,
\* and a failed write on one does not keep the record from the other.
C6_FanOutBestEffort ==
  [][(/\ last'.op \in LogOps /\ Real(last'.lg)
      /\ loggers[last'.lg].zl.file # NoPath
      /\ born[last'.lg].level \in Enabling
      /\ Rank(last'.op) >= ThresholdRank(born[last'.lg].level)) =>
       LET c == loggers[last'.lg].zl.console
           f == loggers[last'.lg].zl.file
       IN /\ IF "console" \in last'.fail THEN out'[c] = out[c]
             ELSE Len(out'[c]) = Len(out[c]) + 1 /\ IsPrefix(out[c], out'[c])
          /\ IF "file" \in last'.fail THEN files'[f].data = files[f].data
             ELSE /\ Len(files'[f].data) = Len(files[f].data) + 1
                  /\ IsPrefix(files[f].data, files'[f].data)
          /\ last'.fail = {} =>
               out'[c][Len(out'[c])].rec = files'[f].data[Len(files'[f].data)]]_vars

\* the console refused a record of a scoped logger and the file received it
C6_Witness ==
  /\ last.op \in LogOps /\ Real(last.lg) /\ born[last.lg].parent # 0
  /\ last.fail = {"console"}
  /\ out[loggers[last.lg].zl.console] = <<>>
  /\ Len(files[LogPath].data) = 1

\* C6 (as stated): with a file path, the records in the file are at every
\* point the records on the console.
C6_SameRecordsEverywhere ==
  \A id \in DOMAIN loggers : (Real(id) /\ loggers[id].zl.file # NoPath) =>
    {files[loggers[id].zl.file].data[i] : i \in DOMAIN files[loggers[id].zl.file].data}
      = {out[loggers[id].zl.console][i].rec : i \in DOMAIN out[loggers[id].zl.console]}

C8_NoopDoesNothing ==
  [][(last'.lg \in DOMAIN loggers /\ loggers[last'.lg].kind = "noop") =>
       /\ out' = out /\ files' = files /\ dirs' = dirs
       /\ loggers' = loggers
       /\ last'.err = NoError
       /\ last'.op = "Scope" => last'.res = last'.lg]_vars

\* Scope has been called on a no-op logger that stands beside a real one
C8_Witness ==
  /\ last.op = "Scope" /\ last.lg \in DOMAIN loggers /\ loggers[last.lg].kind = "noop"
  /\ last.res = last.lg /\ \E id \in DOMAIN loggers : Real(id)

\* the record id stands in dest exactly once, its two parts side by side
OnceIntact(dest, id) ==
  /\ Cardinality({k \in DOMAIN dest : dest[k].id = id}) = 2
  /\ \E k \in DOMAIN dest :
       k + 1 \in DOMAIN dest /\ dest[k] = Parts(id)[1] /\ dest[k + 1] = Parts(id)[2]

\* C9: when threads log concurrently through loggers of one New call, every
\* emitted record is in each destination exactly once and intact, whatever
\* the interleaving.
C9_EachRecordOnceIntact ==
  (\A t \in Threads : pc[t] = "idle") =>
    \A id \in emitted :
      /\ OnceIntact(out[loggers[1].zl.console], id)
      /\ loggers[1].zl.file # NoPath => OnceIntact(files[loggers[1].zl.file].data, id)

\* C10: the Event severity is a backend level of its own, strictly between
\* Info and Warn: a record tagged "event" never has Warn (or Error) severity.
C10_EventBetweenInfoAndWarn ==
  \A p \in AllLines([out |-> out, files |-> files]) :
    p.level = "event" => (InfoLevel < p.lvl /\ p.lvl < WarnLevel)

====
